---- MODULE Spec2Model ----
(***************************************************************************)
(* Model of ibis: the `init` supervisor (src/init/src/main.rs) and the     *)
(* `ibish` command interpreter (src/ibish/src/main.rs) that it spawns.     *)
(*                                                                         *)
(* Both programs are single threaded.  The supervisor is blocked in        *)
(* child.wait() while the interpreter runs, and the interpreter is blocked *)
(* in child_process.wait() while an external command runs.  Every system   *)
(* call whose Result the code inspects or unwraps is a step with a         *)
(* nondeterministic outcome.  Characters are one-character strings, a      *)
(* line and a token are sequences of characters.                           *)
(***************************************************************************)
EXTENDS Integers, Sequences, FiniteSets, TLC

VARIABLES
    pid,               \* std::process::id() of the supervisor
    verbose_debug,     \* cargo feature "verbose_debug" of the build
    customizable_logo, \* cargo feature "customizable_logo" of the build
    initPc,            \* position of the supervisor in main()
    ueCaller,          \* call site of the unrecoverable_error() call in progress
    initExit,          \* exit status of the supervisor process, NoStatus while it runs
    cad_enabled,       \* kernel Ctrl-Alt-Delete handling
    sigmask,           \* signal mask of the supervisor
    env_PATH,          \* the PATH environment variable
    trace,             \* what the supervisor has printed and called, in order
    shellPc,           \* position of the /ibish child in its main()
    shellExit,         \* exit status of the /ibish child, NoStatus while it runs
    shellPanic,        \* which unwrap() of ibish panicked, "none" if none did
    linesRead,         \* lines the interpreter has consumed from stdin
    line_buf,          \* ibish: line_buf
    parsed_line,       \* ibish: parsed_line
    child_process,     \* ibish: the command spawned for this line, NoChild if none
    nSpawned,          \* ibish: external commands spawned so far
    nWaited,           \* ibish: external commands whose wait() has returned
    eofSeen            \* ibish: read_line has returned Ok(0), end-of-input

vars == <<pid, verbose_debug, customizable_logo, initPc, ueCaller, initExit,
          cad_enabled, sigmask, env_PATH, trace,
          shellPc, shellExit, shellPanic, linesRead, line_buf, parsed_line,
          child_process, nSpawned, nWaited, eofSeen>>

initVars  == <<initPc, ueCaller, initExit, cad_enabled, sigmask, env_PATH, trace>>
buildVars == <<pid, verbose_debug, customizable_logo>>
shellVars == <<shellPc, shellExit, shellPanic, linesRead, line_buf, parsed_line,
               child_process, nSpawned, nWaited, eofSeen>>

(***************************************************************************)
(* Bounds of the model.                                                    *)
(***************************************************************************)
MaxPid     == 3   \* the supervisor is started under a pid in 1..MaxPid
MaxLineLen == 2   \* generated input lines have at most this many characters
MaxLines   == 2   \* lines on the interpreter's stdin before end-of-input

(***************************************************************************)
(* Values.                                                                 *)
(***************************************************************************)
NoStatus    == -1
PanicStatus == 101  \* exit status of a Rust process whose main thread panicked
NoChild     == [name |-> <<>>, args |-> <<>>, state |-> "none", status |-> NoStatus]

\* Characters.  VT (U+000B) and NBSP (U+00A0) are white space to Unicode
\* (char::is_whitespace) but not to char::is_ascii_whitespace.
VT   == "<VT>"
NBSP == "<NBSP>"

Str_exit        == <<"e", "x", "i", "t">>
Str_ls_la       == <<"l", "s", " ", "-", "l", "a">>
Str_exit_now    == <<"e", "x", "i", "t", " ", "n", "o", "w", " ",
                     "p", "l", "e", "a", "s", "e">>
Str_echo_hi     == <<"e", "c", "h", "o", " ", "h", "i">>
Str_exitt       == <<"e", "x", "i", "t", "t">>
Str_exi         == <<"e", "x", "i">>
Str_sp_exit     == <<" ", " ", "e", "x", "i", "t", " ">>
Str_blank       == <<" ", " ", " ">>
Str_quoted      == <<"l", "s", " ", "\"", "a", " ", "b", "\"", " ", "$", "x", "\\", "n">>
Str_vt          == <<"l", "s", VT, "-", "l", "a">>
Str_crlf        == <<"l", "s", "\t", "\f", "a", "\r">>

Alphabet == {" ", "\t", "a", "\"", VT}

RECURSIVE SeqsUpTo(_, _)
SeqsUpTo(S, n) ==
    IF n = 0 THEN {<<>>}
    ELSE LET shorter == SeqsUpTo(S, n - 1)
         IN  shorter \cup {Append(s, c) : s \in shorter, c \in S}

\* The lines the user may type (without the terminating newline).
Lines ==
    SeqsUpTo(Alphabet, MaxLineLen)
      \cup {Str_exit, Str_ls_la, Str_exit_now, Str_echo_hi, Str_exitt, Str_exi,
            Str_sp_exit, Str_blank, Str_quoted, Str_vt, Str_crlf}

ChildStatuses == {0, 1}

(***************************************************************************)
(* ibish: parse_line                                                       *)
(***************************************************************************)
\* u8::is_ascii_whitespace: U+0020, U+0009, U+000A, U+000C, U+000D
is_ascii_whitespace(c) == c \in {" ", "\t", "\n", "\f", "\r"}

\* str::split(pred): the pieces between separators, empty pieces included
RECURSIVE split(_, _, _)
split(s, cur, acc) ==
    IF s = <<>> THEN Append(acc, cur)
    ELSE IF is_ascii_whitespace(Head(s))
         THEN split(Tail(s), <<>>, Append(acc, cur))
         ELSE split(Tail(s), Append(cur, Head(s)), acc)

not_empty(tok) == tok # <<>>

split_keep_empty(s) == split(s, <<>>, <<>>)

\* str::split_ascii_whitespace: split on ASCII white space, keep the
\* non-empty pieces
split_ascii_whitespace(s) == SelectSeq(split(s, <<>>, <<>>), not_empty)

parse_line(buf) == split_ascii_whitespace(buf)

(***************************************************************************)
(* init: constants and messages                                            *)
(***************************************************************************)
DEFAULT_PATH        == "/sbin;/bin"
DEFAULT_BANNER_LOGO == "Ibis"
MsgNotPid1   == "This process must be run as PID 1 (init)"
MsgCad       == "Could not disable Ctrl-Alt-Delete"
MsgSignals   == "Could not disable signals"
MsgShutdown  == "Could not initiate shutdown"
MsgTerminate == "Terminating all processes"
MsgKillFail  == "Failure trying to kill processes during shutdown"

Ev(op, arg, res) == [op |-> op, arg |-> arg, res |-> res]
Println(msg)     == Ev("println", msg, "Ok")
Log(e)           == trace' = Append(trace, e)

\* The message an unrecoverable_error() call was given, by call site.
UeMsg(site) ==
    CASE site = "cad"     -> MsgCad
      [] site = "sigmask" -> MsgSignals
      [] site = "reboot"  -> MsgShutdown

\* The statement after an unrecoverable_error() call, by call site: the
\* function's return type is (), so this is where a return would continue.
UeReturnPc(site) ==
    CASE site = "cad"     -> "sigmask"
      [] site = "sigmask" -> "banner"
      [] site = "reboot"  -> "spawn"

(***************************************************************************)
(* init: main(), up to the loop                                            *)
(***************************************************************************)
BootNextBannerFirst(pc) ==
    CASE pc = "cad"     -> "banner"
      [] pc = "banner"  -> "sigmask"
      [] pc = "sigmask" -> "setpath"
      [] pc = "setpath" -> "spawn"

BootNextPathAfterSpawn(pc) ==
    CASE pc = "cad"     -> "sigmask"
      [] pc = "sigmask" -> "banner"
      [] pc = "banner"  -> "spawn"
      [] pc = "setpath" -> "spawn"

\* main.rs:85-102  the order of the boot steps of main(): the step that
\* follows a boot step that succeeded
BootNext(pc) ==
    CASE pc = "cad"     -> "sigmask"
      [] pc = "sigmask" -> "banner"
      [] pc = "banner"  -> "setpath"
      [] pc = "setpath" -> "spawn"

NotPid1Mutant(p) == p > 2

\* main.rs:77  std::process::id() != 1
NotPid1(p) == p # 1

Main_CheckPid ==
    /\ initPc = "start"
    /\ IF NotPid1(pid)
       THEN /\ Log(Println(MsgNotPid1))
            /\ initPc' = "exited"
            /\ initExit' = 1
       ELSE /\ initPc' = "cad"
            /\ UNCHANGED <<trace, initExit>>
    /\ UNCHANGED <<buildVars, ueCaller, cad_enabled, sigmask, env_PATH, shellVars>>

Main_DisableCad ==
    /\ initPc = "cad"
    /\ \E res \in {"Ok", "Err"} :
         /\ Log(Ev("set_cad_enabled", "false", res))
         /\ IF res = "Err"
            THEN /\ initPc' = "ue_print"
                 /\ ueCaller' = "cad"
                 /\ UNCHANGED cad_enabled
            ELSE /\ initPc' = BootNext("cad")
                 /\ cad_enabled' = FALSE
                 /\ UNCHANGED ueCaller
    /\ UNCHANGED <<buildVars, initExit, sigmask, env_PATH, shellVars>>

Main_Sigprocmask ==
    /\ initPc = "sigmask"
    /\ \E res \in {"Ok", "Err"} :
         /\ Log(Ev("sigprocmask", "SIG_SETMASK all", res))
         /\ IF res = "Err"
            THEN /\ initPc' = "ue_print"
                 /\ ueCaller' = "sigmask"
                 /\ UNCHANGED sigmask
            ELSE /\ initPc' = BootNext("sigmask")
                 /\ sigmask' = "all"
                 /\ UNCHANGED ueCaller
    /\ UNCHANGED <<buildVars, initExit, cad_enabled, env_PATH, shellVars>>

\* The logos get_boot_banner_logo() can return: the contents of /logo.txt
\* when the feature is on and the file can be read, else the default.
get_boot_banner_logo ==
    IF customizable_logo THEN {"/logo.txt", DEFAULT_BANNER_LOGO}
                         ELSE {DEFAULT_BANNER_LOGO}

Main_Banner ==
    /\ initPc = "banner"
    /\ \E logo \in get_boot_banner_logo :
         trace' = trace \o <<Ev("println", "banner", logo),
                             Ev("println", "version", "Ok")>>
    /\ initPc' = BootNext("banner")
    /\ UNCHANGED <<buildVars, ueCaller, initExit, cad_enabled, sigmask, env_PATH,
                   shellVars>>

Main_SetPath ==
    /\ initPc = "setpath"
    /\ env_PATH' = DEFAULT_PATH
    /\ Log(Ev("set_var", "PATH", DEFAULT_PATH))
    /\ initPc' = BootNext("setpath")
    /\ UNCHANGED <<buildVars, ueCaller, initExit, cad_enabled, sigmask, shellVars>>

(***************************************************************************)
(* init: unrecoverable_error                                               *)
(***************************************************************************)
Ue_Print ==
    /\ initPc = "ue_print"
    /\ Log(Ev("println", "init has encountered a serious error", UeMsg(ueCaller)))
    /\ initPc' = IF verbose_debug THEN "ue_dump" ELSE "ue_loop"
    /\ UNCHANGED <<buildVars, ueCaller, initExit, cad_enabled, sigmask, env_PATH,
                   shellVars>>

\* debug_dump_env, compiled in with the feature "verbose_debug"
Ue_DumpEnv ==
    /\ initPc = "ue_dump"
    /\ Log(Ev("println", "env", env_PATH))
    /\ initPc' = "ue_loop"
    /\ UNCHANGED <<buildVars, ueCaller, initExit, cad_enabled, sigmask, env_PATH,
                   shellVars>>

HaltNextReturns(ret) == ret

\* main.rs:20  loop {}: the position after one turn of the loop
HaltNext(ret) == "ue_loop"

Ue_Loop ==
    /\ initPc = "ue_loop"
    /\ initPc' = HaltNext(UeReturnPc(ueCaller))
    /\ UNCHANGED <<buildVars, ueCaller, initExit, cad_enabled, sigmask, env_PATH,
                   trace, shellVars>>

(***************************************************************************)
(* init: the loop of main()                                                *)
(***************************************************************************)
ShellStart ==
    /\ shellPc' = "prompt"
    /\ shellExit' = NoStatus
    /\ shellPanic' = "none"
    /\ linesRead' = 0
    /\ line_buf' = <<>>
    /\ parsed_line' = <<>>
    /\ child_process' = NoChild
    /\ nSpawned' = 0
    /\ nWaited' = 0
    /\ eofSeen' = FALSE

MsgPanic == "thread main panicked: called Result::unwrap() on an Err value"

\* A panic of the supervisor's main thread at the unwrap() of the failed
\* call `e`: the panic hook of the Rust runtime writes its message to
\* stderr and the process ends.
InitPanics(e) ==
    /\ trace' = trace \o <<e, Ev("eprintln", MsgPanic, "Ok")>>
    /\ initPc' = "panicked"
    /\ initExit' = PanicStatus

\* main.rs:104  Command::new("/ibish").spawn().unwrap()
Main_SpawnShell ==
    /\ initPc = "spawn"
    /\ \E res \in {"Ok", "Err"} :
         /\ IF res = "Err"
            THEN /\ InitPanics(Ev("spawn", "/ibish", "Err"))
                 /\ UNCHANGED shellVars
            ELSE /\ Log(Ev("spawn", "/ibish", "Ok"))
                 /\ initPc' = "wait"
                 /\ ShellStart
                 /\ UNCHANGED initExit
    /\ UNCHANGED <<buildVars, ueCaller, cad_enabled, sigmask, env_PATH>>

ShellTerminated == shellPc \in {"exited", "panicked"}

AfterWaitByStatus(status) == IF status = 0 THEN "sd_print" ELSE "spawn"

\* main.rs:105-106  the status wait() returned is dropped, and
\* on_shutdown_request() is the next statement
AfterWait(status) == "sd_print"

\* main.rs:105  child.wait().unwrap(), returning Ok(status)
Main_WaitShell ==
    /\ initPc = "wait"
    /\ ShellTerminated
    /\ Log(Ev("wait", "/ibish", "Ok"))
    /\ initPc' = AfterWait(shellExit)
    /\ shellPc' = "reaped"
    /\ UNCHANGED <<buildVars, ueCaller, initExit, cad_enabled, sigmask, env_PATH,
                   shellExit, shellPanic, linesRead, line_buf, parsed_line,
                   child_process, nSpawned, nWaited, eofSeen>>

\* main.rs:105  child.wait().unwrap(), returning Err
Main_WaitShellErr ==
    /\ initPc = "wait"
    /\ InitPanics(Ev("wait", "/ibish", "Err"))
    /\ UNCHANGED <<buildVars, ueCaller, cad_enabled, sigmask, env_PATH, shellVars>>

(***************************************************************************)
(* init: on_shutdown_request                                               *)
(***************************************************************************)
ShutdownNextNoSync(pc, res) ==
    CASE pc = "sd_print"                 -> "sd_kill"
      [] pc = "sd_kill" /\ res = "Err"   -> "sd_killmsg"
      [] pc = "sd_kill" /\ res # "Err"   -> "sd_reboot"
      [] pc = "sd_killmsg"               -> "sd_reboot"
      [] pc = "sd_sync"                  -> "sd_reboot"

ShutdownNextAborts(pc, res) ==
    CASE pc = "sd_print"                 -> "sd_kill"
      [] pc = "sd_kill" /\ res = "Err"   -> "sd_killmsg"
      [] pc = "sd_kill" /\ res # "Err"   -> "sd_sync"
      [] pc = "sd_killmsg"               -> "spawn"
      [] pc = "sd_sync"                  -> "sd_reboot"

\* main.rs:55-70  the order of the statements of on_shutdown_request
ShutdownNext(pc, res) ==
    CASE pc = "sd_print"                 -> "sd_kill"
      [] pc = "sd_kill" /\ res = "Err"   -> "sd_killmsg"
      [] pc = "sd_kill" /\ res # "Err"   -> "sd_sync"
      [] pc = "sd_killmsg"               -> "sd_sync"
      [] pc = "sd_sync"                  -> "sd_reboot"

Shutdown_Print ==
    /\ initPc = "sd_print"
    /\ Log(Println(MsgTerminate))
    /\ initPc' = ShutdownNext("sd_print", "Ok")
    /\ UNCHANGED <<buildVars, ueCaller, initExit, cad_enabled, sigmask, env_PATH,
                   shellVars>>

Shutdown_Kill ==
    /\ initPc = "sd_kill"
    /\ \E res \in {"Ok", "Err"} :
         /\ Log(Ev("kill", "-1 SIGTERM", res))
         /\ initPc' = ShutdownNext("sd_kill", res)
    /\ UNCHANGED <<buildVars, ueCaller, initExit, cad_enabled, sigmask, env_PATH,
                   shellVars>>

Shutdown_KillFailed ==
    /\ initPc = "sd_killmsg"
    /\ Log(Println(MsgKillFail))
    /\ initPc' = ShutdownNext("sd_killmsg", "Ok")
    /\ UNCHANGED <<buildVars, ueCaller, initExit, cad_enabled, sigmask, env_PATH,
                   shellVars>>

Shutdown_Sync ==
    /\ initPc = "sd_sync"
    /\ Log(Ev("sync", "", "Ok"))
    /\ initPc' = ShutdownNext("sd_sync", "Ok")
    /\ UNCHANGED <<buildVars, ueCaller, initExit, cad_enabled, sigmask, env_PATH,
                   shellVars>>

AfterRebootSilent(res) == IF res = "Err" THEN "ue_loop" ELSE "off"

AfterRebootReturns(res) == IF res = "Err" THEN "ue_print" ELSE "spawn"

\* main.rs:70-72  reboot() returns Result<Infallible>: it returns only to
\* report an error; a power-off that is carried out never returns
AfterReboot(res) == IF res = "Err" THEN "ue_print" ELSE "off"

Shutdown_Reboot ==
    /\ initPc = "sd_reboot"
    /\ \E res \in {"Err", "NoReturn"} :
         /\ Log(Ev("reboot", "RB_POWER_OFF", res))
         /\ initPc' = AfterReboot(res)
         /\ ueCaller' = IF res = "Err" THEN "reboot" ELSE ueCaller
    /\ UNCHANGED <<buildVars, initExit, cad_enabled, sigmask, env_PATH, shellVars>>

(***************************************************************************)
(* ibish: main()                                                           *)
(***************************************************************************)
\* The interpreter runs while the supervisor is blocked waiting for it.
ShellRuns(pc) == initPc = "wait" /\ shellPc = pc

\* An unwrap() of an Err: the main thread panics and the process ends.
ShellPanics(what) ==
    /\ shellPc' = "panicked"
    /\ shellExit' = PanicStatus
    /\ shellPanic' = what

\* main.rs:21  stdout.write_all(PROMPT.as_bytes()).unwrap()
Sh_Prompt ==
    /\ ShellRuns("prompt")
    /\ \E res \in {"Ok", "Err"} :
         IF res = "Err" THEN ShellPanics("write_all")
         ELSE /\ shellPc' = "flush"
              /\ UNCHANGED <<shellExit, shellPanic>>
    /\ UNCHANGED <<buildVars, initVars, linesRead, line_buf, parsed_line,
                   child_process, nSpawned, nWaited, eofSeen>>

\* main.rs:22  stdout.flush().unwrap()
Sh_Flush ==
    /\ ShellRuns("flush")
    /\ \E res \in {"Ok", "Err"} :
         IF res = "Err" THEN ShellPanics("flush")
         ELSE /\ shellPc' = "read"
              /\ UNCHANGED <<shellExit, shellPanic>>
    /\ UNCHANGED <<buildVars, initVars, linesRead, line_buf, parsed_line,
                   child_process, nSpawned, nWaited, eofSeen>>

AfterReadBreaksAtEof(n) == IF n = 0 THEN "exited" ELSE "parse"

\* main.rs:23-26  the number of bytes read_line returned is dropped by the
\* unwrap(), and parse_line is the next statement also when it is 0
AfterRead(n) == "parse"

\* main.rs:23  read_line appends the line, its newline included
Sh_ReadLine ==
    /\ ShellRuns("read")
    /\ linesRead < MaxLines
    /\ \E l \in Lines :
         /\ line_buf' = line_buf \o l \o <<"\n">>
         /\ linesRead' = linesRead + 1
         /\ shellPc' = AfterRead(Len(l) + 1)
    /\ UNCHANGED <<buildVars, initVars, shellExit, shellPanic, parsed_line,
                   child_process, nSpawned, nWaited, eofSeen>>

\* main.rs:23  the last line of the input, ended by end-of-input
Sh_ReadLastLine ==
    /\ ShellRuns("read")
    /\ linesRead < MaxLines
    /\ \E l \in Lines \ {<<>>} :
         /\ line_buf' = line_buf \o l
         /\ linesRead' = MaxLines
         /\ shellPc' = AfterRead(Len(l))
    /\ UNCHANGED <<buildVars, initVars, shellExit, shellPanic, parsed_line,
                   child_process, nSpawned, nWaited, eofSeen>>

\* main.rs:23  read_line returns Ok(0) at end-of-input and appends nothing
Sh_ReadEof ==
    /\ ShellRuns("read")
    /\ linesRead' = MaxLines
    /\ eofSeen' = TRUE
    /\ shellPc' = AfterRead(0)
    /\ UNCHANGED <<buildVars, initVars, shellExit, shellPanic, line_buf,
                   parsed_line, child_process, nSpawned, nWaited>>

\* main.rs:23  read_line(..).unwrap() of an Err
Sh_ReadErr ==
    /\ ShellRuns("read")
    /\ ShellPanics("read_line")
    /\ UNCHANGED <<buildVars, initVars, linesRead, line_buf, parsed_line,
                   child_process, nSpawned, nWaited, eofSeen>>

\* main.rs:26
Sh_Parse ==
    /\ ShellRuns("parse")
    /\ parsed_line' = parse_line(line_buf)
    /\ shellPc' = "dispatch"
    /\ UNCHANGED <<buildVars, initVars, shellExit, shellPanic, linesRead, line_buf,
                   child_process, nSpawned, nWaited, eofSeen>>

DispatchEmptyExits(tokens) ==
    IF tokens = <<>> \/ Head(tokens) = Str_exit THEN "exit" ELSE "spawn"

DispatchExactlyExit(tokens) ==
    IF tokens = <<Str_exit>> THEN "exit"
    ELSE IF tokens = <<>> THEN "empty"
    ELSE "spawn"

\* main.rs:29-33  the arm of the match that a token sequence takes
Dispatch(tokens) ==
    IF tokens # <<>> /\ Head(tokens) = Str_exit THEN "exit"
    ELSE IF tokens = <<>> THEN "empty"
    ELSE "spawn"

\* main.rs:29-33
Sh_Dispatch ==
    /\ ShellRuns("dispatch")
    /\ LET arm == Dispatch(parsed_line) IN
         IF arm = "exit"
         THEN /\ shellPc' = "exited"
              /\ shellExit' = 0
         ELSE /\ shellPc' = IF arm = "empty" THEN "clear" ELSE "spawn"
              /\ UNCHANGED shellExit
    /\ UNCHANGED <<buildVars, initVars, shellPanic, linesRead, line_buf, parsed_line,
                   child_process, nSpawned, nWaited, eofSeen>>

CommandArgsReversed(tokens) ==
    [name |-> tokens[1],
     args |-> [i \in 1..(Len(tokens) - 1) |-> tokens[Len(tokens) + 1 - i]]]

\* main.rs:37-41  path_or_name = parsed_line[0], args = &parsed_line[1..]
Command(tokens) ==
    [name |-> tokens[1], args |-> SubSeq(tokens, 2, Len(tokens))]

AfterSpawnNoWait == "clear"

\* main.rs:40-44  child_process.wait() is the statement after the spawn
AfterSpawn == "wait"

\* main.rs:37-43  Command::new(path_or_name).args(args).spawn().unwrap()
Sh_Spawn ==
    /\ ShellRuns("spawn")
    /\ \E res \in {"Ok", "Err"} :
         IF res = "Err"
         THEN /\ ShellPanics("spawn")
              /\ child_process' = [name   |-> Command(parsed_line).name,
                                   args   |-> Command(parsed_line).args,
                                   state  |-> "failed",
                                   status |-> NoStatus]
              /\ UNCHANGED nSpawned
         ELSE /\ child_process' = [name   |-> Command(parsed_line).name,
                                   args   |-> Command(parsed_line).args,
                                   state  |-> "running",
                                   status |-> NoStatus]
              /\ nSpawned' = nSpawned + 1
              /\ shellPc' = AfterSpawn
              /\ UNCHANGED <<shellExit, shellPanic>>
    /\ UNCHANGED <<buildVars, initVars, linesRead, line_buf, parsed_line,
                   nWaited, eofSeen>>

\* The external command runs and ends with some status.
Child_Exit ==
    /\ ShellRuns("wait")
    /\ child_process.state = "running"
    /\ \E st \in ChildStatuses :
         child_process' = [child_process EXCEPT !.state = "exited", !.status = st]
    /\ UNCHANGED <<buildVars, initVars, shellPc, shellExit, shellPanic, linesRead,
                   line_buf, parsed_line, nSpawned, nWaited, eofSeen>>

\* main.rs:44  child_process.wait().unwrap(), returning Ok(status)
Sh_Wait ==
    /\ ShellRuns("wait")
    /\ child_process.state = "exited"
    /\ child_process' = [child_process EXCEPT !.state = "reaped"]
    /\ nWaited' = nWaited + 1
    /\ shellPc' = "clear"
    /\ UNCHANGED <<buildVars, initVars, shellExit, shellPanic, linesRead, line_buf,
                   parsed_line, nSpawned, eofSeen>>

\* main.rs:44  child_process.wait().unwrap(), returning Err
Sh_WaitErr ==
    /\ ShellRuns("wait")
    /\ ShellPanics("wait")
    /\ UNCHANGED <<buildVars, initVars, linesRead, line_buf, parsed_line,
                   child_process, nSpawned, nWaited, eofSeen>>

clear_keeps(buf) == buf

\* main.rs:49  String::clear
clear(buf) == <<>>

\* main.rs:46-50  the locals of the iteration go out of scope, line_buf.clear()
Sh_Clear ==
    /\ ShellRuns("clear")
    /\ line_buf' = clear(line_buf)
    /\ parsed_line' = <<>>
    /\ child_process' = NoChild
    /\ shellPc' = "prompt"
    /\ UNCHANGED <<buildVars, initVars, shellExit, shellPanic, linesRead, nSpawned,
                   nWaited, eofSeen>>

(***************************************************************************)
(* The system                                                              *)
(***************************************************************************)
Init ==
    /\ pid \in 1..MaxPid
    /\ verbose_debug \in BOOLEAN
    /\ customizable_logo \in BOOLEAN
    /\ initPc = "start"
    /\ ueCaller = "none"
    /\ initExit = NoStatus
    /\ cad_enabled = TRUE
    /\ sigmask = "none"
    /\ env_PATH = "unset"
    /\ trace = <<>>
    /\ shellPc = "none"
    /\ shellExit = NoStatus
    /\ shellPanic = "none"
    /\ linesRead = 0
    /\ line_buf = <<>>
    /\ parsed_line = <<>>
    /\ child_process = NoChild
    /\ nSpawned = 0
    /\ nWaited = 0
    /\ eofSeen = FALSE

Next ==
    \/ Main_CheckPid
    \/ Main_DisableCad
    \/ Main_Sigprocmask
    \/ Main_Banner
    \/ Main_SetPath
    \/ Main_SpawnShell
    \/ Main_WaitShell
    \/ Main_WaitShellErr
    \/ Shutdown_Print
    \/ Shutdown_Kill
    \/ Shutdown_KillFailed
    \/ Shutdown_Sync
    \/ Shutdown_Reboot
    \/ Ue_Print
    \/ Ue_DumpEnv
    \/ Ue_Loop
    \/ Sh_Prompt
    \/ Sh_Flush
    \/ Sh_ReadLine
    \/ Sh_ReadLastLine
    \/ Sh_ReadEof
    \/ Sh_ReadErr
    \/ Sh_Parse
    \/ Sh_Dispatch
    \/ Sh_Spawn
    \/ Child_Exit
    \/ Sh_Wait
    \/ Sh_WaitErr
    \/ Sh_Clear

Spec == Init /\ [][Next]_vars

\* The supervisor is a running process: once inside unrecoverable_error it
\* executes the println (and the dump) and arrives at the loop.
FairSpec == Spec /\ WF_vars(Ue_Print) /\ WF_vars(Ue_DumpEnv)

\* The same for on_shutdown_request: once entered, its statements are
\* executed one after the other.
FairShutdownSpec ==
    /\ FairSpec
    /\ WF_vars(Shutdown_Print) /\ WF_vars(Shutdown_Kill)
    /\ WF_vars(Shutdown_KillFailed) /\ WF_vars(Shutdown_Sync)
    /\ WF_vars(Shutdown_Reboot)

(***************************************************************************)
(* Properties                                                              *)
(***************************************************************************)
Range(f)      == {f[i] : i \in DOMAIN f}
UePcs         == {"ue_print", "ue_dump", "ue_loop"}
ShutdownPcs   == {"sd_print", "sd_kill", "sd_killmsg", "sd_sync", "sd_reboot"}
Ops(evs)      == [i \in DOMAIN evs |-> evs[i].op]
IsPrefix(a, b) == Len(a) <= Len(b) /\ a = SubSeq(b, 1, Len(a))

\* The invocation of on_shutdown_request that event i of the trace belongs
\* to: the number of "Terminating all processes" lines up to it.
InvocationOf(i) ==
    Cardinality({j \in 1..i : trace[j] = Println(MsgTerminate)})

\* C1: in every invocation of on_shutdown_request the SIGTERM broadcast has
\* returned (Ok or Err) before sync is called, and sync has returned before
\* reboot(RB_POWER_OFF) is called; no reboot without a sync before it in the
\* same invocation, also when the broadcast failed.
C1_ShutdownOrder ==
    \A i \in DOMAIN trace :
      /\ trace[i].op \in {"kill", "sync", "reboot"} => InvocationOf(i) >= 1
      /\ trace[i].op = "sync" =>
           \E k \in 1..(i - 1) :
              /\ trace[k].op = "kill"
              /\ InvocationOf(k) = InvocationOf(i)
      /\ trace[i].op = "reboot" =>
           \E k \in 1..(i - 1), s \in 1..(i - 1) :
              /\ k < s
              /\ trace[k].op = "kill"
              /\ trace[s].op = "sync"
              /\ InvocationOf(k) = InvocationOf(i)
              /\ InvocationOf(s) = InvocationOf(i)

C1_Witness ==
    /\ Ev("kill", "-1 SIGTERM", "Err") \in Range(trace)
    /\ \E i \in DOMAIN trace : trace[i].op = "reboot"

\* C2: after a failed spawn of the command the interpreter has not
\* terminated (it reports the failure and goes back to the prompt).
C2_SpawnFailureKeepsShell ==
    child_process.state = "failed" =>
        /\ shellExit = NoStatus
        /\ shellPc \notin {"exited", "panicked", "reaped"}

\* C3: started under a pid other than 1, the supervisor prints the PID
\* diagnostic and exits with status 1; it prints nothing else and performs
\* none of the later steps.
C3_NotPid1Exits ==
    pid # 1 =>
        /\ initPc \in {"start", "exited"}
        /\ initPc = "start"  => trace = <<>> /\ initExit = NoStatus
        /\ initPc = "exited" => trace = <<Println(MsgNotPid1)>> /\ initExit = 1
        /\ cad_enabled
        /\ sigmask = "none"
        /\ env_PATH = "unset"
        /\ shellPc = "none"

C3_Witness == pid # 1 /\ initPc = "exited" /\ initExit = 1

RebootFailed ==
    trace # <<>> /\ \E i \in DOMAIN trace : trace[i] = Ev("reboot", "RB_POWER_OFF", "Err")

\* C4: once the power-off request has failed the supervisor is inside
\* unrecoverable_error and arrives at its halt loop, and once it is in the
\* halt loop it stays there: nothing more is printed or called, no process
\* is spawned, nothing exits.
C4_HaltIsTerminal ==
    /\ [](RebootFailed => initPc \in UePcs /\ ueCaller = "reboot")
    /\ RebootFailed ~> [](initPc = "ue_loop")
    /\ [][initPc = "ue_loop" =>
            /\ initPc' = "ue_loop"
            /\ UNCHANGED <<trace, initExit, shellVars, cad_enabled, sigmask, env_PATH>>]_vars

C4_Witness == RebootFailed /\ initPc = "ue_loop"

\* C5: after a failed spawn of the Shell the supervisor is in the
\* unrecoverable-error state and has not exited.
C5_SpawnFailureHalts ==
    Ev("spawn", "/ibish", "Err") \in Range(trace) =>
        /\ initPc \in UePcs
        /\ initExit = NoStatus

\* C6: the supervisor process exits only when it was not started as pid 1.
C6_ExitsOnlyIfNotPid1 ==
    initExit # NoStatus => pid # 1

\* The events of the trace after its last wait() on the Shell.
AfterLastWait ==
    LET ws == {i \in DOMAIN trace : trace[i].op = "wait"}
        w  == CHOOSE i \in ws : \A j \in ws : j <= i
    IN  SubSeq(trace, w + 1, Len(trace))

\* What on_shutdown_request and a failed power-off print and call, in order.
ShutdownSteps(killFailed) ==
    IF killFailed
    THEN <<"println", "kill", "println", "sync", "reboot", "println", "println">>
    ELSE <<"println", "kill", "sync", "reboot", "println", "println">>

\* C7: once wait() has returned the Shell's exit status, whatever it is, the
\* supervisor is in the Shutdown Sequence (or past it), and the steps it
\* runs do not depend on that status.
C7_ShellExitStartsShutdown ==
    shellPc = "reaped" =>
        /\ initPc \in ShutdownPcs \cup UePcs \cup {"off"}
        /\ initPc # "sd_print" => AfterLastWait[1] = Println(MsgTerminate)
        /\ IsPrefix(Ops(AfterLastWait),
                    ShutdownSteps(Ev("kill", "-1 SIGTERM", "Err") \in Range(trace)))

C7_Witness ==
    /\ shellPc = "reaped"
    /\ shellExit = PanicStatus
    /\ \E i \in DOMAIN trace : trace[i].op = "reboot"

C9_ExitOnlyOnExit ==
    parsed_line # <<>> =>
        IF Head(parsed_line) = Str_exit
        THEN shellPc # "dispatch" =>
                /\ shellPc \in {"exited", "reaped"}
                /\ shellExit = 0
                /\ child_process = NoChild
        ELSE shellExit = NoStatus

(***************************************************************************)
(* The tokenizer, stated without the recursion of split                    *)
(***************************************************************************)
WhiteSpaceAscii   == {" ", "\t", "\n", "\f", "\r"}
\* White_Space of Unicode (char::is_whitespace), as far as the model's
\* characters go
WhiteSpaceUnicode == WhiteSpaceAscii \cup {VT, NBSP}

\* The first and last positions of the maximal runs of characters of `line`
\* that are not in `ws`.
RunStarts(line, ws) ==
    {i \in DOMAIN line : line[i] \notin ws /\ (i = 1 \/ line[i - 1] \in ws)}
RunEnds(line, ws) ==
    {i \in DOMAIN line : line[i] \notin ws /\ (i = Len(line) \/ line[i + 1] \in ws)}
Kth(S, k) == CHOOSE x \in S : Cardinality({y \in S : y < x}) = k - 1

\* `tokens` are the maximal runs of non-`ws` characters of `line`, in order,
\* each with its characters as they are in the line.
SplitsOnRuns(line, tokens, ws) ==
    /\ Len(tokens) = Cardinality(RunStarts(line, ws))
    /\ \A k \in DOMAIN tokens :
          tokens[k] = SubSeq(line, Kth(RunStarts(line, ws), k), Kth(RunEnds(line, ws), k))

NoTokenHas(tokens, ws) ==
    \A k \in DOMAIN tokens :
       /\ tokens[k] # <<>>
       /\ \A n \in DOMAIN tokens[k] : tokens[k][n] \notin ws

TokenizerExamples ==
    /\ line_buf = Str_ls_la \o <<"\n">> =>
          parsed_line = <<  <<"l", "s">>, <<"-", "l", "a">>  >>
    /\ line_buf = Str_quoted \o <<"\n">> =>
          parsed_line = <<  <<"l", "s">>, <<"\"", "a">>, <<"b", "\"">>,
                            <<"$", "x", "\\", "n">>  >>

\* C10 as stated: at Dispatch the tokens are the maximal runs of characters
\* of the line that are not white space, in input order and unchanged; no
\* token is empty or holds a white-space character; an empty or all-blank
\* line gives no token; "ls -la" gives ["ls", "-la"].
C10_SplitsOnWhitespace ==
    shellPc = "dispatch" =>
        /\ SplitsOnRuns(line_buf, parsed_line, WhiteSpaceUnicode)
        /\ NoTokenHas(parsed_line, WhiteSpaceUnicode)
        /\ (\A i \in DOMAIN line_buf : line_buf[i] \in WhiteSpaceUnicode)
              => parsed_line = <<>>
        /\ TokenizerExamples

\* C10 amended: the same with ASCII white space (space, tab, line feed, form
\* feed, carriage return) as the only separators: a token may hold any other
\* character, other white space of Unicode included.
C10_SplitsOnAsciiWhitespace ==
    shellPc = "dispatch" =>
        /\ SplitsOnRuns(line_buf, parsed_line, WhiteSpaceAscii)
        /\ NoTokenHas(parsed_line, WhiteSpaceAscii)
        /\ (\A i \in DOMAIN line_buf : line_buf[i] \in WhiteSpaceAscii)
              => parsed_line = <<>>
        /\ TokenizerExamples

C10_Witness ==
    /\ shellPc = "dispatch"
    /\ line_buf = Str_vt \o <<"\n">>
    /\ parsed_line = <<Str_vt>>

(***************************************************************************)
(* The interpreter's dispatch                                              *)
(***************************************************************************)
\* C11: an empty token sequence at Dispatch is a no-op: the step leads to the
\* end of the iteration and from there to the prompt, with no process
\* spawned and the interpreter still running.
C11_EmptyLineIsNoOp ==
    /\ [](shellPc = "clear" /\ parsed_line = <<>> =>
             /\ child_process = NoChild
             /\ shellExit = NoStatus
             /\ \A i \in DOMAIN line_buf : line_buf[i] \in WhiteSpaceAscii)
    /\ [][(shellPc = "dispatch" /\ parsed_line = <<>> /\ shellPc' # "dispatch") =>
             /\ shellPc' = "clear"
             /\ UNCHANGED <<shellExit, shellPanic, child_process, nSpawned, nWaited>>]_vars
    /\ [][(shellPc = "clear" /\ parsed_line = <<>> /\ shellPc' # "clear") =>
             /\ shellPc' = "prompt"
             /\ UNCHANGED <<shellExit, shellPanic, nSpawned, nWaited>>
             /\ child_process' = NoChild]_vars

C11_Witness ==
    /\ shellPc = "clear"
    /\ parsed_line = <<>>
    /\ line_buf = Str_blank \o <<"\n">>

\* C12: for a line whose first token is not "exit" the command spawned has
\* the first token as its name and the other tokens, in order, as its
\* arguments; one command is spawned for the line; the interpreter leaves
\* the wait only when that command has ended, and then goes to the end of
\* the iteration and to the prompt whatever the command's status; the
\* interpreter's own exit status is never taken from the command.
C12_SpawnWaitPrompt ==
    /\ [](child_process.state # "none" =>
             /\ parsed_line # <<>>
             /\ Head(parsed_line) # Str_exit
             /\ child_process.name = Head(parsed_line)
             /\ child_process.args = Tail(parsed_line))
    /\ [](shellPc = "clear" /\ parsed_line # <<>> =>
             /\ child_process.state = "reaped"
             /\ child_process.status \in ChildStatuses
             /\ shellExit = NoStatus)
    /\ [](shellExit # NoStatus =>
             \/ shellExit = 0 /\ parsed_line # <<>> /\ Head(parsed_line) = Str_exit
             \/ shellExit = PanicStatus /\ shellPanic # "none")
    /\ [](nSpawned <= linesRead /\ nSpawned - nWaited \in {0, 1})
    /\ [][nSpawned' # nSpawned =>
             /\ shellPc = "spawn"
             /\ child_process = NoChild
             /\ nSpawned' = nSpawned + 1
             /\ shellPc' = "wait"]_vars
    /\ [][(shellPc = "wait" /\ shellPc' \notin {"wait", "panicked"}) =>
             /\ child_process.state = "exited"
             /\ shellPc' = "clear"
             /\ shellExit' = NoStatus]_vars
    /\ [][(shellPc = "clear" /\ shellPc' # "clear") =>
             shellPc' = "prompt" /\ shellExit' = NoStatus]_vars

C12_Witness ==
    /\ shellPc = "clear"
    /\ child_process.state = "reaped"
    /\ child_process.status = 1
    /\ child_process.name = <<"l", "s">>
    /\ Len(child_process.args) = 3

(***************************************************************************)
(* The supervisor's boot                                                   *)
(***************************************************************************)
EvMaskOk  == Ev("sigprocmask", "SIG_SETMASK all", "Ok")
EvSetPath == Ev("set_var", "PATH", DEFAULT_PATH)
IsBanner(e) == e.op = "println" /\ e.arg = "banner"
IsSpawn(e)  == e.op = "spawn"
UeDiag(msg) == Ev("println", "init has encountered a serious error", msg)

\* C13: sigprocmask is called at most once; the banner is printed and a
\* Shell is spawned only after the call that installed the all-signals
\* mask; once installed the mask stays installed, through the loop, the
\* Shutdown Sequence and the halt.
C13_SignalMaskStays ==
    /\ [](Cardinality({i \in DOMAIN trace : trace[i].op = "sigprocmask"}) <= 1)
    /\ [](\A i \in DOMAIN trace :
             (IsBanner(trace[i]) \/ IsSpawn(trace[i])) =>
                 \E j \in 1..(i - 1) : trace[j] = EvMaskOk)
    /\ [](sigmask = "all" <=> EvMaskOk \in Range(trace))
    /\ []((\/ initPc \in ShutdownPcs \cup {"banner", "setpath", "spawn", "wait", "off",
                                           "panicked"}
           \/ initPc \in UePcs /\ ueCaller = "reboot"
           \/ shellPc # "none") => sigmask = "all")
    /\ [][sigmask = "all" => sigmask' = "all"]_vars

C13_Witness == sigmask = "all" /\ initPc = "ue_loop" /\ shellPc = "reaped"

\* C14: PATH is written at most once, to DEFAULT_PATH, after the banner and
\* before any spawn; whenever the supervisor spawns the Shell or the Shell
\* spawns a command PATH is already set, and once set it is not written
\* again.
C14_SearchPathOnce ==
    /\ [](Cardinality({i \in DOMAIN trace : trace[i].op = "set_var"}) <= 1)
    /\ [](\A i \in DOMAIN trace :
             /\ trace[i].op = "set_var" =>
                   /\ trace[i] = EvSetPath
                   /\ \E j \in 1..(i - 1) : IsBanner(trace[j])
                   /\ \A j \in 1..(i - 1) : ~IsSpawn(trace[j])
             /\ IsSpawn(trace[i]) => \E j \in 1..(i - 1) : trace[j] = EvSetPath)
    /\ [](env_PATH = (IF EvSetPath \in Range(trace) THEN DEFAULT_PATH ELSE "unset"))
    /\ []((initPc = "spawn" \/ shellPc # "none") => env_PATH = DEFAULT_PATH)
    /\ [][env_PATH = DEFAULT_PATH => env_PATH' = DEFAULT_PATH]_vars

C14_Witness == shellPc = "spawn" /\ env_PATH = DEFAULT_PATH

\* The diagnostic that follows a failed call of the supervisor.
DiagOf(e) ==
    CASE e.op = "set_cad_enabled" -> UeDiag(MsgCad)
      [] e.op = "sigprocmask"     -> UeDiag(MsgSignals)
      [] e.op = "reboot"          -> UeDiag(MsgShutdown)
      [] e.op \in {"spawn", "wait"} -> Ev("eprintln", MsgPanic, "Ok")

IsFatal(e) ==
    /\ e.res = "Err"
    /\ e.op \in {"set_cad_enabled", "sigprocmask", "reboot", "spawn", "wait"}

\* C15: whenever the supervisor has stopped (exited, panicked or in the halt
\* loop) the diagnostic of the condition that stopped it has been printed:
\* the PID message before exit(1), the unrecoverable_error message before
\* the halt loop, the panic message of the runtime before a panic's exit.
C15_DiagnosticBeforeStop ==
    /\ initPc = "exited" => trace # <<>> /\ trace[Len(trace)] = Println(MsgNotPid1)
    /\ \A i \in DOMAIN trace :
          IsFatal(trace[i]) =>
              IF i = Len(trace)
              THEN initPc = "ue_print"
              ELSE trace[i + 1] = DiagOf(trace[i])
    /\ initPc \in {"ue_dump", "ue_loop", "panicked"} =>
          \E i \in DOMAIN trace : IsFatal(trace[i]) /\ i < Len(trace)
    /\ initPc \in UePcs =>
          \E i \in DOMAIN trace :
             IsFatal(trace[i]) /\ DiagOf(trace[i]) = UeDiag(UeMsg(ueCaller))

C15_Witness ==
    /\ initPc = "panicked"
    /\ Ev("spawn", "/ibish", "Err") \in Range(trace)

(***************************************************************************)
(* Spawn and wait                                                          *)
(***************************************************************************)
CountOf(e) == Cardinality({i \in DOMAIN trace : trace[i] = e})
ShellAlive == shellPc \notin {"none", "exited", "panicked", "reaped"}

\* C16: the supervisor has at most one Shell it has not waited for, and the
\* Shell at most one command it has not waited for; the step after a spawn
\* is the wait on that child; a command runs only while the Shell is in its
\* wait, the Shell runs only while the supervisor is in its wait, and no
\* step of the Shutdown Sequence is taken before the Shell has been reaped.
C16_Synchronous ==
    /\ [](CountOf(Ev("spawn", "/ibish", "Ok")) - CountOf(Ev("wait", "/ibish", "Ok"))
             = (IF shellPc \in {"none", "reaped"} THEN 0 ELSE 1))
    /\ [](nSpawned - nWaited
             = (IF child_process.state \in {"running", "exited"} THEN 1 ELSE 0))
    /\ [](child_process.state = "running" =>
             shellPc = "wait" \/ (shellPc \in {"panicked", "reaped"} /\ shellPanic = "wait"))
    /\ [](ShellAlive => initPc \in {"wait", "panicked"})
    /\ []((initPc \in ShutdownPcs \cup {"off"} \/ (initPc \in UePcs /\ ueCaller = "reboot"))
             => shellPc = "reaped")
    /\ [][(shellPc = "spawn" /\ shellPc' \notin {"spawn", "panicked"}) =>
             shellPc' = "wait" /\ child_process'.state = "running"]_vars
    /\ [][(initPc = "spawn" /\ initPc' \notin {"spawn", "panicked"}) =>
             initPc' = "wait" /\ shellPc' = "prompt"]_vars

C16_Witness ==
    /\ initPc = "wait"
    /\ shellPc = "wait"
    /\ child_process.state = "running"
    /\ nSpawned = 2
    /\ nWaited = 1

KillFailed == Ev("kill", "-1 SIGTERM", "Err") \in Range(trace)

\* C17: a failed SIGTERM broadcast is followed by its failure message, then
\* by sync, then by the power-off request, which are reached; the supervisor
\* is in unrecoverable_error after it only when the power-off request failed.
C17_BroadcastFailureContinues ==
    /\ [](\A i \in DOMAIN trace :
             trace[i] = Ev("kill", "-1 SIGTERM", "Err") =>
                /\ i + 1 <= Len(trace) => trace[i + 1] = Println(MsgKillFail)
                /\ i + 2 <= Len(trace) => trace[i + 2].op = "sync"
                /\ i + 3 <= Len(trace) => trace[i + 3].op = "reboot")
    /\ [](KillFailed =>
             /\ initPc \in {"sd_killmsg", "sd_sync", "sd_reboot", "off"} \cup UePcs
             /\ initPc \in UePcs => RebootFailed /\ ueCaller = "reboot")
    /\ KillFailed ~> (\E i \in DOMAIN trace : trace[i].op = "reboot")

C17_Witness == KillFailed /\ initPc = "off"

BootStepFailed(op) == \E i \in DOMAIN trace : trace[i].op = op /\ trace[i].res = "Err"

\* What the trace holds once unrecoverable_error has been called with `msg`
\* after the events `before`: the diagnostic, then the dump of the
\* environment when that is compiled in.
HaltedTrace(before, msg) ==
    \/ trace = before
    \/ trace = before \o <<UeDiag(msg)>>
    \/ verbose_debug /\ trace = before \o <<UeDiag(msg), Ev("println", "env", env_PATH)>>

\* C18: when set_cad_enabled or sigprocmask fails the supervisor prints the
\* matching diagnostic and arrives at the halt loop for good: the mask is
\* not installed (after a failed set_cad_enabled not even tried), no banner
\* is printed, PATH is not written, no Shell is spawned and no Shutdown
\* Sequence is run.
C18_BootFailureHalts ==
    /\ [](BootStepFailed("set_cad_enabled") =>
             /\ initPc \in UePcs /\ ueCaller = "cad"
             /\ HaltedTrace(<<Ev("set_cad_enabled", "false", "Err")>>, MsgCad)
             /\ initPc = "ue_loop" => UeDiag(MsgCad) \in Range(trace)
             /\ sigmask = "none" /\ env_PATH = "unset" /\ shellPc = "none")
    /\ [](BootStepFailed("sigprocmask") =>
             /\ initPc \in UePcs /\ ueCaller = "sigmask"
             /\ HaltedTrace(<<Ev("set_cad_enabled", "false", "Ok"),
                              Ev("sigprocmask", "SIG_SETMASK all", "Err")>>, MsgSignals)
             /\ initPc = "ue_loop" => UeDiag(MsgSignals) \in Range(trace)
             /\ sigmask = "none" /\ env_PATH = "unset" /\ shellPc = "none")
    /\ (BootStepFailed("set_cad_enabled") \/ BootStepFailed("sigprocmask"))
          ~> [](initPc = "ue_loop")

C18_Witness == BootStepFailed("sigprocmask") /\ initPc = "ue_loop"

(***************************************************************************)
(* The interpreter's line buffer and end-of-input                          *)
(***************************************************************************)
\* What one read_line can leave in an empty buffer: a line with its
\* newline, a last line without one, or nothing.
OneLine == {l \o <<"\n">> : l \in Lines} \cup Lines

\* C19: the line buffer is empty whenever the interpreter is at the prompt
\* or about to read, every step that leads to the prompt leaves it empty,
\* and what is parsed and dispatched is the one line read in this iteration.
C19_LineBufferEmptyAtRead ==
    /\ [](shellPc \in {"prompt", "flush", "read"} => line_buf = <<>> /\ parsed_line = <<>>)
    /\ [](shellPc \in {"parse", "dispatch"} => line_buf \in OneLine)
    /\ [](shellPc \in {"dispatch", "spawn", "wait", "clear"} =>
             line_buf \in OneLine /\ SplitsOnRuns(line_buf, parsed_line, WhiteSpaceAscii))
    /\ [][(shellPc # "prompt" /\ shellPc' = "prompt") => line_buf' = <<>>]_vars

C19_Witness ==
    /\ shellPc = "read"
    /\ line_buf = <<>>
    /\ linesRead = 1
    /\ nWaited = 1

ShellEnded == shellPc \in {"exited", "panicked", "reaped"}

\* C20 as stated: after end-of-input the Shell never terminates and the
\* supervisor never starts the Shutdown Sequence.
C20_EofNeverTerminates ==
    eofSeen =>
        /\ ~ShellEnded
        /\ shellExit = NoStatus
        /\ initPc \in {"wait", "panicked"}

\* C20 amended: after end-of-input every read yields nothing, the token
\* sequence is empty, nothing is spawned and each iteration goes back to the
\* prompt; the Shell terminates then only by the panic of a failed prompt
\* write, flush or read, never by exit or because of the end-of-input, and
\* the supervisor starts the Shutdown Sequence only after such a panic.
C20_EofOnlyPanicsTerminate ==
    /\ [](eofSeen =>
             /\ linesRead = MaxLines
             /\ line_buf = <<>> /\ parsed_line = <<>> /\ child_process = NoChild
             /\ shellPc \notin {"spawn", "wait", "exited"}
             /\ ShellEnded =>
                   /\ shellExit = PanicStatus
                   /\ shellPanic \in {"write_all", "flush", "read_line"}
             /\ initPc \notin {"wait", "panicked"} => shellPc = "reaped")
    /\ [][eofSeen => eofSeen' /\ nSpawned' = nSpawned /\ nWaited' = nWaited]_vars
    /\ [][(eofSeen /\ shellPc # shellPc' /\ shellPc' \notin {"panicked", "reaped"}) =>
             \/ shellPc = "prompt"   /\ shellPc' = "flush"
             \/ shellPc = "flush"    /\ shellPc' = "read"
             \/ shellPc = "read"     /\ shellPc' = "parse"
             \/ shellPc = "parse"    /\ shellPc' = "dispatch"
             \/ shellPc = "dispatch" /\ shellPc' = "clear"
             \/ shellPc = "clear"    /\ shellPc' = "prompt"]_vars

C20_Witness ==
    /\ eofSeen
    /\ shellPc = "prompt"
    /\ initPc = "wait"

====
